---- MODULE Spec2Model ----
(***************************************************************************)
(* Batch orchestration of the BlenderBIM backend:                          *)
(*   main.generate_ifc           (FastAPI endpoint, ifcopenshell)          *)
(*   blender_generator.main      (script run inside Blender)               *)
(*   execute_code.main           (export wrapper run inside Blender)       *)
(*   mcp_client.execute_tool_calls / execute_blender_tool / export_ifc     *)
(* One behaviour is one invocation of one entry point on one input.        *)
(***************************************************************************)
EXTENDS Integers, Sequences, FiniteSets, TLC

\* ------------------------------------------------------------------ bounds
MaxBatch == 3
MaxSteps == 3
MaxIsoBatch == 2
MaxFloors == 3

\* ------------------------------------------------------- python constants
None == "None"
\* a JSON list or object used as function name: json gives list/dict, which
\* python cannot hash
Unhashable == "[unhashable]"
NoFail == [at |-> -1, partial |-> FALSE]

\* ------------------------------------------------------------ entry points
Programs == {"generate_ifc", "blender_generator", "execute_code", "mcp_client"}

\* main.py ELEMENT_HANDLERS keys
ELEMENT_HANDLERS ==
  {"create_box", "create_sphere", "create_cylinder", "create_cone",
   "create_plane", "create_torus", "create_wall", "create_door",
   "create_window", "create_column", "create_beam", "create_slab",
   "create_stairs", "create_roof", "create_room", "create_building"}

\* blender_generator.py ELEMENT_HANDLERS keys (no create_room/create_building)
BG_ELEMENT_HANDLERS ==
  {"create_box", "create_cylinder", "create_sphere", "create_cone",
   "create_torus", "create_plane", "create_wall", "create_slab",
   "create_door", "create_window", "create_column", "create_beam",
   "create_roof", "create_stairs", "create_footing", "create_pile",
   "create_pile_cap", "create_truss", "create_brace", "create_plate",
   "create_reinforcing_bar", "create_ramp", "create_railing",
   "create_curtain_wall", "create_ceiling", "create_covering",
   "create_duct", "create_pipe", "create_cable_carrier",
   "create_hvac_equipment", "create_pump", "create_valve", "create_sensor",
   "create_light_fixture", "create_electrical_outlet", "create_switch",
   "create_furniture", "create_cabinet", "create_countertop",
   "create_pavement", "create_kerb", "create_parking_space",
   "create_signage"}

VARIABLES
  prog,             \* the entry point that is running
  project_name,     \* request.project_name (Optional[str])
  tool_calls,       \* the submitted batch
  pc,               \* position in the entry point
  it,               \* the for-loop iterator: indices not yet visited
  processed,        \* indices of the instructions the loop has visited
  invoked,          \* indices whose handler was called
  ifc_file,         \* element entities of the model, in creation order
  created_elements, \* main.generate_ifc: created_elements
  stdout,           \* per-instruction lines printed by the loop
  tmp_file,         \* the output file: "none", "missing", "empty", "written"
  exported,         \* what the external encoder did: "none" before export
  spatial,          \* spatial products made by project creation
  http,             \* mcp_client: how the MCP server answers each call
  results,          \* mcp_client.execute_tool_calls: results
  result,           \* what the caller receives
  iso,              \* two requests side by side (SpecIso)
  geo               \* one handler applied to one parameter set (SpecGeom)

vars == <<prog, project_name, tool_calls, pc, it, processed, invoked,
          ifc_file, created_elements, stdout, tmp_file, exported, spatial,
          http, results, result, iso, geo>>

\* ------------------------------------------------------ the geometry
\* Lengths are integers counting thousandths of the unit the handlers
\* compute in (5.0 is 5000, 0.2 is 200); counts (steps, floors) are plain
\* integers.  An instruction's parameters are a function from keys to values.

\* an instruction that gives no parameters
NoParams == [ key \in {} |-> 0 ]

\* params.get(key, default)
Get(params, key, default) == IF key \in DOMAIN params THEN params[key] ELSE default

\* A solid is kept as its bounding box: xlo..xhi, ylo..yhi and, along z,
\* base..top.

\* IfcExtrudedAreaSolid of a profile XDim by YDim (an IfcRectangleProfileDef,
\* or the box around an IfcCircleProfileDef) centred on Location (0, ly, lz)
\* and extruded along +Z by Depth, in the product's coordinates
ExtrudedAreaSolid(XDim, YDim, ly, lz, Depth) ==
  [xlo  |-> 0 - XDim \div 2,  xhi |-> 0 - XDim \div 2 + XDim,
   ylo  |-> ly - YDim \div 2, yhi |-> ly - YDim \div 2 + YDim,
   base |-> lz,               top |-> lz + Depth]

\* geometry.edit_object_placement with the translation (x, y, z)
Placed(solid, at) ==
  [ f \in DOMAIN solid |->
      solid[f] + at[IF f \in {"xlo", "xhi"} THEN "x"
                    ELSE IF f \in {"ylo", "yhi"} THEN "y" ELSE "z"] ]

\* bpy.ops.mesh.primitive_cube_add(size=1, location) followed by obj.scale:
\* a box of the scale's extents centred on location
Cube(location, scale) ==
  [xlo  |-> location.x - scale.x \div 2,
   xhi  |-> location.x - scale.x \div 2 + scale.x,
   ylo  |-> location.y - scale.y \div 2,
   yhi  |-> location.y - scale.y \div 2 + scale.y,
   base |-> location.z - scale.z \div 2,
   top  |-> location.z - scale.z \div 2 + scale.z]

\* bpy.ops.mesh.primitive_plane_add(size=1, location) followed by obj.scale:
\* a flat rectangle in the plane z = location.z
Plane(location, scale) ==
  Cube(location, [x |-> scale.x, y |-> scale.y, z |-> 0])

Product(cls, name, size, at, solids) ==
  [cls |-> cls, name |-> name, size |-> size, at |-> at, solids |-> solids]

\* x, y, z = params.get("x", 0), params.get("y", 0), params.get("z", 0)
PlacementOf(params) ==
  [x |-> Get(params, "x", 0), y |-> Get(params, "y", 0), z |-> Get(params, "z", 0)]

\* main.create_wall.  The Position has Axis (0,1,0) and RefDirection
\* (1,0,0): the profile's XDim (thickness) lies along X and its YDim (height)
\* along Z, both centred on the origin, and the profile is swept along
\* (1,0,0) by Depth = length, whatever `rotationY` the instruction gives
main_create_wall(params) ==
  LET length    == Get(params, "length", 5000)
      height    == Get(params, "height", 3000)
      thickness == Get(params, "thickness", 200)
      at        == PlacementOf(params)
      swept     == [xlo  |-> 0 - thickness \div 2,
                    xhi  |-> 0 - thickness \div 2 + thickness + length,
                    ylo  |-> 0, yhi |-> 0,
                    base |-> 0 - height \div 2,
                    top  |-> 0 - height \div 2 + height]
  IN  Product("IfcWall", Get(params, "name", "Wall"),
              [length |-> length, height |-> height, thickness |-> thickness],
              at, <<Placed(swept, at)>>)

\* main.create_box: z_adjusted = z + height / 2
main_create_box(params) ==
  LET width  == Get(params, "width", 1000)
      height == Get(params, "height", 1000)
      depth  == Get(params, "depth", 1000)
      at     == PlacementOf(params)
      z_adjusted == at.z + height \div 2
      placement  == [x |-> at.x, y |-> at.y, z |-> z_adjusted]
  IN  Product("IfcBuildingElementProxy", Get(params, "name", "Box"),
              [width |-> width, height |-> height, depth |-> depth],
              placement,
              <<Placed(ExtrudedAreaSolid(width, depth, 0, 0, height), placement)>>)

\* main.create_cylinder: z_adjusted = z + height / 2
main_create_cylinder(params) ==
  LET radius == Get(params, "radius", 500)
      height == Get(params, "height", 1000)
      at     == PlacementOf(params)
      z_adjusted == at.z + height \div 2
      placement  == [x |-> at.x, y |-> at.y, z |-> z_adjusted]
  IN  Product("IfcBuildingElementProxy", Get(params, "name", "Cylinder"),
              [radius |-> radius, height |-> height],
              placement,
              <<Placed(ExtrudedAreaSolid(2 * radius, 2 * radius, 0, 0, height), placement)>>)

\* main.create_plane: Depth=0.001, placed at (x, y, z)
main_create_plane(params) ==
  LET width  == Get(params, "width", 1000)
      height == Get(params, "height", 1000)
      at     == PlacementOf(params)
  IN  Product("IfcBuildingElementProxy", Get(params, "name", "Plane"),
              [width |-> width, height |-> height],
              at, <<Placed(ExtrudedAreaSolid(width, height, 0, 0, 1), at)>>)

\* main.create_slab
main_create_slab(params) ==
  LET width     == Get(params, "width", 10000)
      depth     == Get(params, "depth", 10000)
      thickness == Get(params, "thickness", 200)
      at        == PlacementOf(params)
  IN  Product("IfcSlab", Get(params, "name", "Slab"),
              [width |-> width, depth |-> depth, thickness |-> thickness],
              at, <<Placed(ExtrudedAreaSolid(width, depth, 0, 0, thickness), at)>>)

\* main.create_column: z_adjusted = z + height / 2
main_create_column(params) ==
  LET width  == Get(params, "width", 300)
      depth  == Get(params, "depth", 300)
      height == Get(params, "height", 3000)
      at     == PlacementOf(params)
      z_adjusted == at.z + height \div 2
      placement  == [x |-> at.x, y |-> at.y, z |-> z_adjusted]
  IN  Product("IfcColumn", Get(params, "name", "Column"),
              [width |-> width, depth |-> depth, height |-> height],
              placement,
              <<Placed(ExtrudedAreaSolid(width, depth, 0, 0, height), placement)>>)

\* main.create_roof (the extrusion's depth comes from math.tan(pitch) and is
\* not computed here)
main_create_roof(params) ==
  LET width == Get(params, "width", 10000)
      depth == Get(params, "depth", 10000)
      pitch == Get(params, "pitch", 30)
      at    == [x |-> Get(params, "x", 0), y |-> Get(params, "y", 0),
                z |-> Get(params, "z", 3000)]
  IN  Product("IfcRoof", Get(params, "name", "Roof"),
              [width |-> width, depth |-> depth, pitch |-> pitch], at, <<>>)

\* the for loop of main.create_stairs from index i on: `items` is bound at
\* i = 0 and the loop is left at i = 1
RECURSIVE StairItems(_, _, _, _, _, _)
StairItems(i, steps, width, step_depth, step_height, items) ==
  IF i >= steps THEN items
  ELSE LET extrusion == ExtrudedAreaSolid(width, step_depth, i * step_depth,
                                          i * step_height, step_height)
       IN  IF i = 0
             THEN StairItems(i + 1, steps, width, step_depth, step_height, <<extrusion>>)
             ELSE items

\* a name no assignment has bound yet
Unbound == "[unbound]"

\* main.create_stairs: [raised, product]; Items=items raises when the loop
\* never ran
main_create_stairs(params) ==
  LET width       == Get(params, "width", 1200)
      steps       == Get(params, "steps", 10)
      step_height == Get(params, "stepHeight", 180)
      step_depth  == Get(params, "stepDepth", 280)
      items       == StairItems(0, steps, width, step_depth, step_height, Unbound)
      at          == PlacementOf(params)
      size        == [width |-> width, steps |-> steps,
                      stepHeight |-> step_height, stepDepth |-> step_depth]
  IN  IF items = Unbound
        THEN [raised |-> TRUE,
              product |-> Product("IfcStair", Get(params, "name", "Stairs"), size, Unbound, <<>>)]
        ELSE [raised |-> FALSE,
              product |-> Product("IfcStair", Get(params, "name", "Stairs"), size, at,
                                  [ k \in 1..Len(items) |-> Placed(items[k], at) ])]

\* a create_room that closes the room before it raises the walls
main_create_room_ceiling_first(params) ==
  LET width          == Get(params, "width", 5000)
      depth          == Get(params, "depth", 5000)
      height         == Get(params, "height", 2700)
      wall_thickness == Get(params, "wallThickness", 200)
      x_base         == Get(params, "x", 0)
      y_base         == Get(params, "y", 0)
      z_base         == Get(params, "z", 0)
      name           == Get(params, "name", "Room")
  IN  << main_create_slab([name |-> name \o "_Floor", width |-> width, depth |-> depth,
                           thickness |-> 200, x |-> x_base, y |-> y_base, z |-> z_base]),
         main_create_slab([name |-> name \o "_Ceiling", width |-> width, depth |-> depth,
                           thickness |-> 200, x |-> x_base, y |-> y_base,
                           z |-> z_base + height]),
         main_create_wall([name |-> name \o "_Wall_Front", length |-> width,
                           height |-> height, thickness |-> wall_thickness,
                           x |-> x_base, y |-> y_base, z |-> z_base]),
         main_create_wall([name |-> name \o "_Wall_Back", length |-> width,
                           height |-> height, thickness |-> wall_thickness,
                           x |-> x_base, y |-> y_base + depth, z |-> z_base]),
         main_create_wall([name |-> name \o "_Wall_Left", length |-> depth,
                           height |-> height, thickness |-> wall_thickness,
                           x |-> x_base, y |-> y_base, z |-> z_base, rotationY |-> 90]),
         main_create_wall([name |-> name \o "_Wall_Right", length |-> depth,
                           height |-> height, thickness |-> wall_thickness,
                           x |-> x_base + width, y |-> y_base, z |-> z_base,
                           rotationY |-> 90]) >>

\* main.create_room: the products of its six calls, in call order
main_create_room(params) ==
  LET width          == Get(params, "width", 5000)
      depth          == Get(params, "depth", 5000)
      height         == Get(params, "height", 2700)
      wall_thickness == Get(params, "wallThickness", 200)
      x_base         == Get(params, "x", 0)
      y_base         == Get(params, "y", 0)
      z_base         == Get(params, "z", 0)
      name           == Get(params, "name", "Room")
  IN  << main_create_slab([name |-> name \o "_Floor", width |-> width, depth |-> depth,
                           thickness |-> 200, x |-> x_base, y |-> y_base, z |-> z_base]),
         main_create_wall([name |-> name \o "_Wall_Front", length |-> width,
                           height |-> height, thickness |-> wall_thickness,
                           x |-> x_base, y |-> y_base, z |-> z_base]),
         main_create_wall([name |-> name \o "_Wall_Back", length |-> width,
                           height |-> height, thickness |-> wall_thickness,
                           x |-> x_base, y |-> y_base + depth, z |-> z_base]),
         main_create_wall([name |-> name \o "_Wall_Left", length |-> depth,
                           height |-> height, thickness |-> wall_thickness,
                           x |-> x_base, y |-> y_base, z |-> z_base, rotationY |-> 90]),
         main_create_wall([name |-> name \o "_Wall_Right", length |-> depth,
                           height |-> height, thickness |-> wall_thickness,
                           x |-> x_base + width, y |-> y_base, z |-> z_base,
                           rotationY |-> 90]),
         main_create_slab([name |-> name \o "_Ceiling", width |-> width, depth |-> depth,
                           thickness |-> 200, x |-> x_base, y |-> y_base,
                           z |-> z_base + height]) >>

\* main.create_building, one pass of `for floor in range(floors)`: four
\* corner columns, then the floor's slab above the ground floor
BuildingFloor(name, floor, width, depth, floor_height) ==
  LET z_level   == floor * floor_height
      positions == << <<0, 0>>, <<width, 0>>, <<0, depth>>, <<width, depth>> >>
      columns   == [ i \in 1..4 |->
                       main_create_column([name |-> name \o "_Column_" \o ToString(floor)
                                                      \o "_" \o ToString(i - 1),
                                           width |-> 400, depth |-> 400,
                                           height |-> floor_height,
                                           x |-> positions[i][1], y |-> positions[i][2],
                                           z |-> z_level]) ]
  IN  IF floor > 0
        THEN Append(columns,
                    main_create_slab([name |-> name \o "_Floor_" \o ToString(floor),
                                      width |-> width, depth |-> depth, thickness |-> 200,
                                      x |-> 0, y |-> 0, z |-> z_level]))
        ELSE columns

RECURSIVE BuildingFloors(_, _, _, _, _, _)
BuildingFloors(name, floor, floors, width, depth, floor_height) ==
  IF floor >= floors THEN <<>>
  ELSE BuildingFloor(name, floor, width, depth, floor_height)
         \o BuildingFloors(name, floor + 1, floors, width, depth, floor_height)

\* main.create_building: the products of its calls, in call order
main_create_building(params) ==
  LET width        == Get(params, "width", 10000)
      depth        == Get(params, "depth", 10000)
      floors       == Get(params, "floors", 2)
      floor_height == Get(params, "floorHeight", 3000)
      name         == Get(params, "name", "Building")
  IN  << main_create_slab([name |-> name \o "_Foundation", width |-> width,
                           depth |-> depth, thickness |-> 300,
                           x |-> 0, y |-> 0, z |-> 0]) >>
        \o BuildingFloors(name, 0, floors, width, depth, floor_height)
        \o << main_create_roof([name |-> name \o "_Roof", width |-> width,
                                depth |-> depth, pitch |-> 30,
                                x |-> 0, y |-> 0, z |-> floors * floor_height]) >>

\* blender_generator.create_wall
bg_create_wall(params) ==
  LET length    == Get(params, "length", 5000)
      height    == Get(params, "height", 3000)
      thickness == Get(params, "thickness", 200)
      at        == PlacementOf(params)
      location  == [x |-> at.x + length \div 2, y |-> at.y, z |-> at.z + height \div 2]
      scale     == [x |-> length, y |-> thickness, z |-> height]
  IN  Product("IfcWall", "Cube",
              [length |-> length, height |-> height, thickness |-> thickness],
              location, <<Cube(location, scale)>>)

\* blender_generator.create_slab
bg_create_slab(params) ==
  LET length    == Get(params, "length", 5000)
      width     == Get(params, "width", 5000)
      thickness == Get(params, "thickness", 200)
      at        == PlacementOf(params)
      location  == [x |-> at.x + length \div 2, y |-> at.y + width \div 2,
                    z |-> at.z + thickness \div 2]
      scale     == [x |-> length, y |-> width, z |-> thickness]
  IN  Product("IfcSlab", "Cube",
              [length |-> length, width |-> width, thickness |-> thickness],
              location, <<Cube(location, scale)>>)

\* blender_generator.create_plane
bg_create_plane(params) ==
  LET width    == Get(params, "width", 2000)
      height   == Get(params, "height", 2000)
      at       == PlacementOf(params)
      location == [x |-> at.x + width \div 2, y |-> at.y + height \div 2, z |-> at.z]
      scale    == [x |-> width, y |-> height, z |-> 1]
  IN  Product("IfcSlab", Get(params, "name", "Plane"),
              [width |-> width, height |-> height],
              location, <<Plane(location, scale)>>)

\* blender_generator.create_countertop: y = params.get('y', 0.9)
bg_create_countertop(params) ==
  LET width     == Get(params, "width", 2000)
      depth     == Get(params, "depth", 600)
      thickness == Get(params, "thickness", 40)
      x         == Get(params, "x", 0)
      y         == Get(params, "y", 900)
      z         == Get(params, "z", 0)
      location  == [x |-> x + width \div 2, y |-> y, z |-> z + depth \div 2]
      scale     == [x |-> width, y |-> thickness, z |-> depth]
  IN  Product("IfcSlab", Get(params, "name", "Countertop"),
              [width |-> width, depth |-> depth, thickness |-> thickness],
              location, <<Cube(location, scale)>>)

\* blender_generator.create_column
bg_create_column(params) ==
  LET width    == Get(params, "width", 300)
      depth    == Get(params, "depth", 300)
      height   == Get(params, "height", 3000)
      at       == PlacementOf(params)
      location == [x |-> at.x, y |-> at.y, z |-> at.z + height \div 2]
      scale    == [x |-> width, y |-> depth, z |-> height]
  IN  Product("IfcColumn", "Cube",
              [width |-> width, depth |-> depth, height |-> height],
              location, <<Cube(location, scale)>>)

\* blender_generator.create_stairs: one cube per pass of the loop;
\* `return step_obj` raises when the loop never ran
bg_create_stairs(params) ==
  LET width       == Get(params, "width", 1200)
      steps       == Get(params, "steps", 15)
      step_height == Get(params, "stepHeight", 180)
      step_depth  == Get(params, "stepDepth", 280)
      at          == PlacementOf(params)
      size        == [width |-> width, steps |-> steps,
                      stepHeight |-> step_height, stepDepth |-> step_depth]
      step(i)     == LET step_z == at.z + i * step_height
                         step_y == at.y + i * step_depth
                     IN  Cube([x |-> at.x + width \div 2,
                               y |-> step_y + step_depth \div 2,
                               z |-> step_z + step_height \div 2],
                              [x |-> width, y |-> step_depth, z |-> step_height])
  IN  [raised  |-> steps <= 0,
       product |-> Product("IfcStair", "Cube", size, at,
                           [ k \in 1..steps |-> step(k - 1) ])]

\* ------------------------------------------------------------ the inputs
\* One submitted instruction.  name: function.get("name"); arguments: what
\* function.get("arguments") is ("dict", "json": a string json.loads accepts,
\* "badjson": a string it rejects); argname: arguments.get("name"); fail: how
\* the external kernel behaves inside the handler (NoFail, or raise after `at`
\* finished children, with the next entity created but unassigned if partial).
Instruction(n, a, an, f) == [name |-> n, arguments |-> a, argname |-> an, fail |-> f]

\* main.create_stairs inside the loop body: the IfcStair entity exists and
\* is in no container when the handler raises
StairsOutcome(params) ==
  IF main_create_stairs(params).raised THEN [at |-> 0, partial |-> TRUE] ELSE NoFail

InstructionSet ==
  { Instruction("create_wall", "dict", None, NoFail),
    Instruction("create_wall", "json", "W", NoFail),
    Instruction("create_wall", "badjson", None, NoFail),
    Instruction("create_wall", "dict", None, [at |-> 0, partial |-> TRUE]),
    Instruction("create_room", "dict", None, NoFail),
    Instruction("create_room", "dict", None, [at |-> 2, partial |-> FALSE]),
    Instruction("create_building", "dict", None, NoFail),
    Instruction("create_stairs", "dict", None, StairsOutcome([steps |-> 0])),
    Instruction("create_spaceship", "dict", None, NoFail),
    Instruction(None, "dict", None, NoFail),
    Instruction(Unhashable, "dict", None, NoFail) }

\* blender_generator.main reads call.get('params', {}): no json parsing there;
\* its create_stairs has made no object when `return step_obj` raises
BGInstructionSet ==
  { c \in InstructionSet : c.arguments = "dict" /\ c.name # "create_stairs" }
    \cup { Instruction("create_stairs", "dict", None, [at |-> 0, partial |-> FALSE]) }

RECURSIVE SeqsUpTo(_, _)
SeqsUpTo(S, n) ==
  IF n = 0 THEN { <<>> }
  ELSE LET shorter == SeqsUpTo(S, n - 1)
       IN  shorter \cup { Append(q, x) : q \in { r \in shorter : Len(r) = n - 1 }, x \in S }

Range(n) == [ k \in 1..n |-> k ]

\* main.create_ifc_project: IfcSite, IfcBuilding, IfcBuildingStorey under
\* the IfcProject
Skeleton == <<"IfcSite", "IfcBuilding", "IfcBuildingStorey">>

\* ---------------------------------------------------------- the handlers
\* the IFC classes of a sequence of products
Classes(products) == [ k \in 1..Len(products) |-> products[k].cls ]

\* a create_building that opens a storey of its own
Children_with_storey(kind) ==
  CASE kind = "create_room"     ->
         <<"IfcSlab", "IfcWall", "IfcWall", "IfcWall", "IfcWall", "IfcSlab">>
    [] kind = "create_building" ->
         <<"IfcBuildingStorey">> \o
         <<"IfcSlab", "IfcColumn", "IfcColumn", "IfcColumn", "IfcColumn",
           "IfcColumn", "IfcColumn", "IfcColumn", "IfcColumn", "IfcSlab", "IfcRoof">>
    [] kind = "create_wall"     -> <<"IfcWall">>
    [] kind = "create_slab"     -> <<"IfcSlab">>
    [] kind = "create_stairs"   -> <<"IfcStair">>
    [] OTHER -> <<"IfcBuildingElementProxy">>

\* classes of the element entities a handler creates, in creation order
\* (main.py; create_building with its default of two floors)
Children(kind) ==
  CASE kind = "create_room"     ->
         <<"IfcSlab", "IfcWall", "IfcWall", "IfcWall", "IfcWall", "IfcSlab">>
    [] kind = "create_building" ->
         <<"IfcSlab", "IfcColumn", "IfcColumn", "IfcColumn", "IfcColumn",
           "IfcColumn", "IfcColumn", "IfcColumn", "IfcColumn", "IfcSlab", "IfcRoof">>
    [] kind = "create_wall"     -> <<"IfcWall">>
    [] kind = "create_slab"     -> <<"IfcSlab">>
    [] kind = "create_stairs"   -> <<"IfcStair">>
    [] OTHER -> <<"IfcBuildingElementProxy">>

Element(cls, i, inStorey) == [cls |-> cls, by |-> i, contained |-> inStorey]

\* handler(ifc_file, storey, context, arguments): what it adds to the model
\* and whether it raised
RunHandler(kind, i, fail) ==
  LET ch   == Children(kind)
      n    == IF fail = NoFail THEN Len(ch) ELSE fail.at
      done == [ k \in 1..n |-> Element(ch[k], i, TRUE) ]
  IN  IF fail = NoFail
        THEN [raised |-> FALSE, elements |-> done]
        ELSE [raised |-> TRUE,
              elements |-> IF fail.partial
                             THEN Append(done, Element(ch[n + 1], i, FALSE))
                             ELSE done]

\* dict.get(key) / `key in dict` on ELEMENT_HANDLERS: python hashes the key
Hashable(key) == key # Unhashable

\* a loop that visits the batch from its end
NextCall_last(iter) == iter[Len(iter)]

\* the for statement's next item
NextCall(iter) == Head(iter)

Running == [status |-> "running", detail |-> "-", created |-> -1, content |-> "-"]
HTTP500(cause) == [status |-> "500", detail |-> cause, created |-> -1, content |-> "-"]
HTTP200(n, bytes) == [status |-> "200", detail |-> "-", created |-> n, content |-> bytes]

\* one printed line
Line(what, fn) == [line |-> what, fn |-> fn]

\* --------------------------------------------------- main.generate_ifc
\* body of `for tool_call in request.tool_calls` (main.py 1098-1123)
LoopBody(call, i) ==
  IF call.arguments = "badjson"
    THEN [abort |-> "json.loads", called |-> FALSE, elements |-> <<>>,
          entry |-> <<>>, line |-> <<>>]
  ELSE IF ~Hashable(call.name)
    THEN [abort |-> "unhashable name", called |-> FALSE, elements |-> <<>>,
          entry |-> <<>>, line |-> <<Line("processing", call.name)>>]
  ELSE IF call.name \in ELEMENT_HANDLERS
    THEN LET r == RunHandler(call.name, i, call.fail)
         IN  IF r.raised
               THEN [abort |-> None, called |-> TRUE, elements |-> r.elements,
                     entry |-> <<>>, line |-> <<Line("processing", call.name), Line("failed", call.name)>>]
               ELSE [abort |-> None, called |-> TRUE, elements |-> r.elements,
                     entry |-> <<[name |-> IF call.argname = None THEN call.name
                                           ELSE call.argname,
                                  type |-> call.name]>>,
                     line |-> <<Line("processing", call.name), Line("created", call.name)>>]
  ELSE [abort |-> None, called |-> FALSE, elements |-> <<>>, entry |-> <<>>,
        line |-> <<Line("processing", call.name), Line("unknown", call.name)>>]

\* main.py 1093: create_ifc_project(request.project_name), once, before the loop
G_CreateProject ==
  /\ prog = "generate_ifc" /\ pc = "start"
  /\ spatial' = spatial \o Skeleton
  /\ pc' = "loop"
  /\ UNCHANGED <<iso, geo, prog, project_name, tool_calls, it, processed, invoked,
                 ifc_file, created_elements, stdout, tmp_file, exported, http,
                 results, result>>

\* the loop body storing the parsed arguments back into the tool call
G_ProcessToolCall_writes_back ==
  /\ prog = "generate_ifc" /\ pc = "loop" /\ it # <<>>
  /\ LET i == NextCall(it)
         b == LoopBody(tool_calls[i], i)
     IN  /\ processed' = Append(processed, i)
         /\ invoked' = IF b.called THEN Append(invoked, i) ELSE invoked
         /\ ifc_file' = ifc_file \o b.elements
         /\ created_elements' = created_elements \o b.entry
         /\ stdout' = stdout \o b.line
         /\ tool_calls' = [tool_calls EXCEPT ![i].arguments =
                                              IF @ = "json" THEN "dict" ELSE @]
         /\ IF b.abort # None
              THEN /\ pc' = "done"
                   /\ result' = HTTP500(b.abort)
                   /\ it' = it
              ELSE /\ pc' = "loop"
                   /\ result' = result
                   /\ it' = SelectSeq(it, LAMBDA k : k # i)
  /\ UNCHANGED <<iso, geo, prog, project_name, tmp_file, exported, spatial, http,
                 results>>
G_ProcessToolCall ==
  /\ prog = "generate_ifc" /\ pc = "loop" /\ it # <<>>
  /\ LET i == NextCall(it)
         b == LoopBody(tool_calls[i], i)
     IN  /\ processed' = Append(processed, i)
         /\ invoked' = IF b.called THEN Append(invoked, i) ELSE invoked
         /\ ifc_file' = ifc_file \o b.elements
         /\ created_elements' = created_elements \o b.entry
         /\ stdout' = stdout \o b.line
         /\ IF b.abort # None
              THEN /\ pc' = "done"
                   /\ result' = HTTP500(b.abort)
                   /\ it' = it
              ELSE /\ pc' = "loop"
                   /\ result' = result
                   /\ it' = SelectSeq(it, LAMBDA k : k # i)
  /\ UNCHANGED <<iso, geo, prog, project_name, tool_calls, tmp_file, exported, spatial, http,
                 results>>

\* main.py 1125-1128: NamedTemporaryFile(delete=False) then ifc_file.write
WriteOutcomes == {"raise", "written", "empty", "missing"}

G_Write ==
  /\ prog = "generate_ifc" /\ pc = "loop" /\ it = <<>>
  /\ \E o \in WriteOutcomes :
       /\ exported' = o
       /\ IF o = "raise"
            THEN /\ tmp_file' = "empty"
                 /\ result' = HTTP500("write")
                 /\ pc' = "done"
            ELSE /\ tmp_file' = o
                 /\ result' = result
                 /\ pc' = "read"
  /\ UNCHANGED <<iso, geo, prog, project_name, tool_calls, it, processed, invoked,
                 ifc_file, created_elements, stdout, spatial, http, results>>

\* main.py 1130-1147: open/read, os.remove, Response(...)
ReadAndRespond(file, readRaises, pname, created) ==
  IF file = "missing"
    THEN [file |-> file, result |-> HTTP500("open")]
  ELSE IF readRaises
    THEN [file |-> file, result |-> HTTP500("read")]
  ELSE IF pname = None
    THEN [file |-> "none", result |-> HTTP500("project_name")]
  ELSE [file |-> "none", result |-> HTTP200(Len(created), file)]

G_Respond ==
  /\ prog = "generate_ifc" /\ pc = "read"
  /\ \E readRaises \in BOOLEAN :
       LET r == ReadAndRespond(tmp_file, readRaises, project_name, created_elements)
       IN  /\ tmp_file' = r.file
           /\ result' = r.result
  /\ pc' = "done"
  /\ UNCHANGED <<iso, geo, prog, project_name, tool_calls, it, processed, invoked,
                 ifc_file, created_elements, stdout, exported, spatial, http,
                 results>>

\* ------------------------------------------------ blender_generator.main
Exit(code, cause) == [status |-> code, detail |-> cause, created |-> -1, content |-> "-"]

\* blender_generator.py 884-908: argv after "--", input file, create_project
B_Start ==
  /\ prog = "blender_generator" /\ pc = "start"
  /\ \E dashdash \in BOOLEAN :
       IF dashdash
         THEN /\ pc' = "loop"
              /\ result' = result
              \* create_project (25-43): site, building and storey are looked
              \* up after bim.create_project and may each be missing
              /\ \E made \in {Skeleton, <<>>} : spatial' = spatial \o made
         ELSE /\ pc' = "done"
              /\ result' = Exit("exit1", "no arguments")
              /\ spatial' = spatial
  /\ UNCHANGED <<iso, geo, prog, project_name, tool_calls, it, processed, invoked,
                 ifc_file, created_elements, stdout, tmp_file, exported, http,
                 results>>

\* body of `for i, call in enumerate(tool_calls)` (blender_generator.py 911-923)
BGLoopBody(call, i) ==
  IF ~Hashable(call.name)
    THEN [abort |-> "unhashable name", called |-> FALSE, elements |-> <<>>,
          line |-> <<Line("processing", call.name)>>]
  ELSE IF call.name \in BG_ELEMENT_HANDLERS
    THEN LET r == RunHandler(call.name, i, call.fail)
         IN  [abort |-> None, called |-> TRUE, elements |-> r.elements,
              line |-> IF r.raised
                         THEN <<Line("processing", call.name), Line("failed", call.name)>>
                         ELSE <<Line("processing", call.name)>>]
  ELSE [abort |-> None, called |-> FALSE, elements |-> <<>>,
        line |-> <<Line("processing", call.name), Line("unknown", call.name)>>]

B_ProcessCall ==
  /\ prog = "blender_generator" /\ pc = "loop" /\ it # <<>>
  /\ LET i == NextCall(it)
         b == BGLoopBody(tool_calls[i], i)
     IN  /\ processed' = Append(processed, i)
         /\ invoked' = IF b.called THEN Append(invoked, i) ELSE invoked
         /\ ifc_file' = ifc_file \o b.elements
         /\ stdout' = stdout \o b.line
         /\ IF b.abort # None
              THEN /\ pc' = "done"
                   /\ result' = Exit("exception", b.abort)
                   /\ it' = it
              ELSE /\ pc' = "loop"
                   /\ result' = result
                   /\ it' = SelectSeq(it, LAMBDA k : k # i)
  /\ UNCHANGED <<iso, geo, prog, project_name, tool_calls, created_elements, tmp_file,
                 exported, spatial, http, results>>

\* blender_generator.py 925-935: IfcStore.get_file(), by_type("IfcProduct")
VerifyStore(storeFile, products) ==
  IF ~storeFile
    THEN [exit |-> TRUE, line |-> <<>>]
    ELSE [exit |-> FALSE,
          line |-> IF products = 0 THEN <<Line("no elements", None)>> ELSE <<>>]

B_VerifyStore ==
  /\ prog = "blender_generator" /\ pc = "loop" /\ it = <<>>
  /\ \E storeFile \in BOOLEAN :
       LET v == VerifyStore(storeFile, Len(spatial) + Len(ifc_file))
       IN  /\ stdout' = stdout \o v.line
           /\ IF v.exit
                THEN /\ pc' = "done"
                     /\ result' = Exit("exit1", "no IFC file in store")
                ELSE /\ pc' = "export"
                     /\ result' = result
  /\ UNCHANGED <<iso, geo, prog, project_name, tool_calls, it, processed, invoked,
                 ifc_file, created_elements, tmp_file, exported, spatial, http,
                 results>>

\* blender_generator.py 937-944: bpy.ops.export_ifc.bim, re-raised on failure
ExportOutcomes == {"raise", "written", "empty", "missing"}

B_Export ==
  /\ prog = "blender_generator" /\ pc = "export"
  /\ \E o \in ExportOutcomes :
       /\ exported' = o
       /\ IF o = "raise"
            THEN /\ tmp_file' = tmp_file
                 /\ result' = Exit("exception", "export")
                 /\ pc' = "done"
            ELSE /\ tmp_file' = o
                 /\ result' = result
                 /\ pc' = "check"
  /\ UNCHANGED <<iso, geo, prog, project_name, tool_calls, it, processed, invoked,
                 ifc_file, created_elements, stdout, spatial, http, results>>

\* an export step that does not look for the output file
VerifyOutput_unchecked(file) ==
  [status |-> "exit0", detail |-> "-", created |-> -1, content |-> file]

\* blender_generator.py 946-953 and execute_code.py 38-44: the output file
\* must exist; its size is only printed
VerifyOutput(file) ==
  IF file = "missing" THEN Exit("exit1", "output file not created")
  ELSE [status |-> "exit0", detail |-> "-", created |-> -1, content |-> file]

B_VerifyOutput ==
  /\ prog = "blender_generator" /\ pc = "check"
  /\ result' = VerifyOutput(tmp_file)
  /\ pc' = "done"
  /\ UNCHANGED <<iso, geo, prog, project_name, tool_calls, it, processed, invoked,
                 ifc_file, created_elements, stdout, tmp_file, exported, spatial, http,
                 results>>

\* ----------------------------------------------------- execute_code.main
\* execute_code.py 26-30: IfcStore.get_file()
E_GetFile ==
  /\ prog = "execute_code" /\ pc = "start"
  /\ \E storeFile \in BOOLEAN :
       IF storeFile
         THEN /\ pc' = "export"
              /\ result' = result
         ELSE /\ pc' = "done"
              /\ result' = Exit("exit1", "no IFC project in store")
  /\ UNCHANGED <<iso, geo, prog, project_name, tool_calls, it, processed, invoked,
                 ifc_file, created_elements, stdout, tmp_file, exported, spatial, http,
                 results>>

\* execute_code.py 32-35: ifc_file.write(args.output), not guarded
E_Write ==
  /\ prog = "execute_code" /\ pc = "export"
  /\ \E o \in WriteOutcomes :
       /\ exported' = o
       /\ IF o = "raise"
            THEN /\ tmp_file' = tmp_file
                 /\ result' = Exit("exception", "write")
                 /\ pc' = "done"
            ELSE /\ tmp_file' = o
                 /\ result' = result
                 /\ pc' = "check"
  /\ UNCHANGED <<iso, geo, prog, project_name, tool_calls, it, processed, invoked,
                 ifc_file, created_elements, stdout, spatial, http, results>>

E_Verify ==
  /\ prog = "execute_code" /\ pc = "check"
  /\ result' = VerifyOutput(tmp_file)
  /\ pc' = "done"
  /\ UNCHANGED <<iso, geo, prog, project_name, tool_calls, it, processed, invoked,
                 ifc_file, created_elements, stdout, tmp_file, exported, spatial, http,
                 results>>

\* ------------------------------------------------------------ mcp_client
HttpOutcomes == {"200", "non200", "timeout", "connection error", "other error"}

\* mcp_client.execute_blender_tool: requests.post(..., timeout=120) and the
\* record built from each outcome
execute_blender_tool(tool_name, outcome) ==
  CASE outcome = "200" ->
         [success |-> TRUE, tool |-> tool_name, error |-> None]
    [] outcome = "non200" ->
         [success |-> FALSE, tool |-> tool_name, error |-> "MCP execution failed: <status>"]
    [] outcome = "timeout" ->
         [success |-> FALSE, tool |-> tool_name,
          error |-> "Execution timeout - Blender may be busy"]
    [] outcome = "connection error" ->
         [success |-> FALSE, tool |-> tool_name,
          error |-> "Cannot connect to MCP server - is it running at <url>?"]
    [] OTHER ->
         [success |-> FALSE, tool |-> tool_name, error |-> "<str(e)>"]

call_mcp_tool(tool_name, outcome) == execute_blender_tool(tool_name, outcome)

\* the entry execute_tool_calls appends for one call (mcp_client.py 101-107;
\* the except branch 108-113 is unreachable: execute_blender_tool returns on
\* every Exception)
ResultEntry(tool_name, outcome) ==
  [tool |-> tool_name, success |-> TRUE, result |-> call_mcp_tool(tool_name, outcome)]

\* the loop leaving at the first call that did not succeed
M_ExecuteToolCall_stop_on_failure ==
  /\ prog = "mcp_client" /\ pc = "loop" /\ it # <<>>
  /\ LET i == NextCall(it)
     IN  /\ processed' = Append(processed, i)
         /\ invoked' = Append(invoked, i)
         /\ results' = Append(results, ResultEntry(tool_calls[i].name, http[i]))
         /\ it' = IF http[i] = "200" THEN SelectSeq(it, LAMBDA k : k # i) ELSE <<>>
  /\ UNCHANGED <<iso, geo, prog, project_name, tool_calls, pc, ifc_file, created_elements,
                 stdout, tmp_file, exported, spatial, http, result>>
M_ExecuteToolCall ==
  /\ prog = "mcp_client" /\ pc = "loop" /\ it # <<>>
  /\ LET i == NextCall(it)
     IN  /\ processed' = Append(processed, i)
         /\ invoked' = Append(invoked, i)
         /\ results' = Append(results, ResultEntry(tool_calls[i].name, http[i]))
         /\ it' = SelectSeq(it, LAMBDA k : k # i)
  /\ UNCHANGED <<iso, geo, prog, project_name, tool_calls, pc, ifc_file, created_elements,
                 stdout, tmp_file, exported, spatial, http, result>>

\* mcp_client.export_ifc: the same request for the export_ifc tool
export_ifc(outcome) ==
  CASE outcome = "200" ->
         [status |-> "success", detail |-> "-", created |-> -1, content |-> "result"]
    [] outcome = "non200" ->
         [status |-> "failure", detail |-> "Export failed: <status>",
          created |-> -1, content |-> "-"]
    [] outcome = "timeout" ->
         [status |-> "failure", detail |-> "Export timeout - Blender may be busy",
          created |-> -1, content |-> "-"]
    [] outcome = "connection error" ->
         [status |-> "failure", detail |-> "Cannot connect to MCP server at <url>",
          created |-> -1, content |-> "-"]
    [] OTHER ->
         [status |-> "failure", detail |-> "<str(e)>", created |-> -1, content |-> "-"]

M_ExportIfc ==
  /\ prog = "mcp_client" /\ pc = "loop" /\ it = <<>>
  /\ \E o \in HttpOutcomes : result' = export_ifc(o)
  /\ pc' = "done"
  /\ UNCHANGED <<iso, geo, prog, project_name, tool_calls, it, processed, invoked,
                 ifc_file, created_elements, stdout, tmp_file, exported, spatial, http,
                 results>>

\* ------------------------------------------------------------------ Init
InitGenerateIfc ==
  /\ prog = "generate_ifc"
  /\ project_name \in {"AI Generated BIM Model", None}
  /\ tool_calls \in SeqsUpTo(InstructionSet, MaxBatch)
  /\ pc = "start"
  /\ spatial = <<>>
  /\ http = <<>>

InitBlenderGenerator ==
  /\ prog = "blender_generator"
  /\ project_name = "AI Generated BIM Model"
  /\ tool_calls \in SeqsUpTo(BGInstructionSet, MaxBatch)
  /\ pc = "start"
  /\ spatial = <<>>
  /\ http = <<>>

InitExecuteCode ==
  /\ prog = "execute_code"
  /\ project_name = "AI Generated Model"
  /\ tool_calls = <<>>
  /\ pc = "start"
  /\ spatial \in {Skeleton, <<>>}
  /\ http = <<>>

McpCallSet == { Instruction("create_wall", "dict", None, NoFail) }

InitMcpClient ==
  /\ prog = "mcp_client"
  /\ project_name = None
  /\ tool_calls \in SeqsUpTo(McpCallSet, MaxBatch)
  /\ pc = "loop"
  /\ spatial = <<>>
  /\ http \in [1..Len(tool_calls) -> HttpOutcomes]

\* the part of the state that is the same at the start of every entry point
InitLocals ==
  /\ it = Range(Len(tool_calls))
  /\ processed = <<>>
  /\ invoked = <<>>
  /\ ifc_file = <<>>
  /\ created_elements = <<>>
  /\ stdout = <<>>
  /\ tmp_file = "none"
  /\ exported = "none"
  /\ results = <<>>
  /\ result = Running

Init ==
  /\ \/ InitGenerateIfc
     \/ InitBlenderGenerator
     \/ InitExecuteCode
     \/ InitMcpClient
  /\ InitLocals
  /\ iso = <<>>
  /\ geo = <<>>

Next ==
  \/ G_CreateProject
  \/ G_ProcessToolCall
  \/ G_Write
  \/ G_Respond
  \/ B_Start
  \/ B_ProcessCall
  \/ B_VerifyStore
  \/ B_Export
  \/ B_VerifyOutput
  \/ E_GetFile
  \/ E_Write
  \/ E_Verify
  \/ M_ExecuteToolCall
  \/ M_ExportIfc

Spec == Init /\ [][Next]_vars

\* ------------------------------------------- one handler, one instruction
\* The handlers as functions of their parameters: geo holds one instruction
\* (kind, params), the implementation asked (main.py or
\* blender_generator.py) and, once the handler ran, what it built.
batchVars == <<prog, project_name, tool_calls, pc, it, processed, invoked,
               ifc_file, created_elements, stdout, tmp_file, exported, spatial,
               http, results, result>>

\* a dict that has `key` with one of `values`, or does not have it
Opt(key, values) == { NoParams } \cup { key :> v : v \in values }

\* the dicts made of one dict of each set
Both(P, Q) == { p @@ q : p \in P, q \in Q }

WallParams ==
  Both(Both(Opt("length", {0, 5000, 5000000}), Opt("height", {0, 3000, 3000000})),
       Both(Opt("thickness", {0, 200, 200000}), Opt("z", {0, 1000})))

BoxParams ==
  Both(Both(Opt("width", {0, 2000}), Opt("height", {0, 2000})),
       Both(Opt("depth", {0, 2000}), Opt("z", {1000})))

ColumnParams ==
  Both(Both(Opt("height", {0, 2000, 3000}), Opt("width", {0, 400})),
       Both(Opt("z", {0, 1000, 0 - 500}), Opt("x", {2000})))

StairsParams ==
  Both(Both(Opt("steps", 0..MaxSteps \cup {15}), Opt("stepHeight", {180, 200})),
       Both(Opt("stepDepth", {300}), Both(Opt("y", {1000}), Opt("z", {0, 500}))))

RoomParams ==
  Both(Both(Opt("width", {4000}), Opt("depth", {3000})),
       Both(Both(Opt("height", {2400}), Opt("wallThickness", {100})),
            Both(Opt("x", {1000}), Both(Opt("y", {2000}), Opt("z", {3000})))))

CylinderParams ==
  Both(Both(Opt("radius", {400}), Opt("height", {2000})),
       Both(Opt("x", {1000}), Both(Opt("y", {2000}), Opt("z", {3000}))))

PlaneParams ==
  Both(Both(Opt("width", {4000}), Opt("height", {2000})),
       Both(Opt("x", {1000}), Both(Opt("y", {2000}), Opt("z", {3000}))))

SlabParams ==
  Both(Both(Opt("length", {4000}), Both(Opt("width", {2000}), Opt("thickness", {300}))),
       Both(Opt("x", {1000}), Both(Opt("y", {2000}), Opt("z", {3000}))))

CountertopParams ==
  Both(Both(Opt("width", {4000}), Both(Opt("depth", {800}), Opt("thickness", {60}))),
       Both(Opt("x", {1000}), Both(Opt("y", {2000}), Opt("z", {3000}))))

BuildingParams ==
  Both(Both(Opt("floors", 0..MaxFloors), Opt("floorHeight", {2800})),
       Both(Opt("width", {8000}), Both(Opt("x", {1000}), Opt("z", {3000}))))

GeoInstruction(impl, kind, params) ==
  [pc |-> "in", impl |-> impl, kind |-> kind, params |-> params, out |-> <<>>]

InitGeo ==
  /\ prog = None /\ project_name = None /\ tool_calls = <<>> /\ pc = "done"
  /\ spatial = <<>> /\ http = <<>> /\ iso = <<>>
  /\ InitLocals
  /\ geo \in { GeoInstruction(impl, "create_wall", p) :
                 impl \in {"main", "bg"}, p \in WallParams }
         \cup { GeoInstruction("main", "create_box", p) : p \in BoxParams }
         \cup { GeoInstruction(impl, "create_column", p) :
                 impl \in {"main", "bg"}, p \in ColumnParams }
         \cup { GeoInstruction(impl, "create_stairs", p) :
                 impl \in {"main", "bg"}, p \in StairsParams }
         \cup { GeoInstruction("main", "create_room", p) : p \in RoomParams }
         \cup { GeoInstruction("main", "create_cylinder", p) : p \in CylinderParams }
         \cup { GeoInstruction(impl, "create_plane", p) :
                 impl \in {"main", "bg"}, p \in PlaneParams }
         \cup { GeoInstruction("bg", "create_slab", p) : p \in SlabParams }
         \cup { GeoInstruction("bg", "create_countertop", p) : p \in CountertopParams }
         \cup { GeoInstruction("main", "create_building", p) : p \in BuildingParams }

\* handler(params) of geo.impl for geo.kind has returned or raised
Built(impl, kind, raised, products) ==
  /\ geo.pc = "in" /\ geo.impl = impl /\ geo.kind = kind
  /\ geo' = [geo EXCEPT !.pc = IF raised THEN "raised" ELSE "built", !.out = products]
  /\ UNCHANGED <<iso, batchVars>>

Geo_main_create_wall ==
  Built("main", "create_wall", FALSE, <<main_create_wall(geo.params)>>)

Geo_bg_create_wall ==
  Built("bg", "create_wall", FALSE, <<bg_create_wall(geo.params)>>)

Geo_main_create_box ==
  Built("main", "create_box", FALSE, <<main_create_box(geo.params)>>)

Geo_main_create_cylinder ==
  Built("main", "create_cylinder", FALSE, <<main_create_cylinder(geo.params)>>)

Geo_main_create_plane ==
  Built("main", "create_plane", FALSE, <<main_create_plane(geo.params)>>)

Geo_bg_create_plane ==
  Built("bg", "create_plane", FALSE, <<bg_create_plane(geo.params)>>)

Geo_bg_create_slab ==
  Built("bg", "create_slab", FALSE, <<bg_create_slab(geo.params)>>)

Geo_bg_create_countertop ==
  Built("bg", "create_countertop", FALSE, <<bg_create_countertop(geo.params)>>)

Geo_main_create_column ==
  Built("main", "create_column", FALSE, <<main_create_column(geo.params)>>)

Geo_bg_create_column ==
  Built("bg", "create_column", FALSE, <<bg_create_column(geo.params)>>)

Geo_main_create_stairs ==
  LET r == main_create_stairs(geo.params)
  IN  Built("main", "create_stairs", r.raised, <<r.product>>)

Geo_bg_create_stairs ==
  LET r == bg_create_stairs(geo.params)
  IN  Built("bg", "create_stairs", r.raised, <<r.product>>)

Geo_main_create_room ==
  Built("main", "create_room", FALSE, main_create_room(geo.params))

Geo_main_create_building ==
  Built("main", "create_building", FALSE, main_create_building(geo.params))

\* the same instruction handed to create_room once more
Geo_main_create_room_again ==
  /\ geo.pc = "built" /\ geo.impl = "main" /\ geo.kind = "create_room"
  /\ geo' = [pc |-> "again", impl |-> geo.impl, kind |-> geo.kind,
             params |-> geo.params, out |-> geo.out,
             again |-> main_create_room(geo.params)]
  /\ UNCHANGED <<iso, batchVars>>

NextGeo ==
  \/ Geo_main_create_wall
  \/ Geo_bg_create_wall
  \/ Geo_main_create_box
  \/ Geo_main_create_cylinder
  \/ Geo_main_create_plane
  \/ Geo_bg_create_plane
  \/ Geo_bg_create_slab
  \/ Geo_bg_create_countertop
  \/ Geo_main_create_column
  \/ Geo_bg_create_column
  \/ Geo_main_create_stairs
  \/ Geo_bg_create_stairs
  \/ Geo_main_create_room
  \/ Geo_main_create_building
  \/ Geo_main_create_room_again

SpecGeom == InitGeo /\ [][NextGeo]_vars

\* ------------------------------------------------ two requests at a time
\* iso holds two requests, A and B, that came in by the same entry point
\* (path): their batches, how far each has got (run) and every model
\* instance there is (models).
Requests == {"A", "B"}

\* one model instance for the whole module
ModelOf_module_level(path, r) == "blender"

\* the model instance the handlers of request r work on: the `ifc_file`
\* local to the call of generate_ifc (main.py 1093), or the one running
\* Blender instance behind MCP_SERVER_URL (mcp_client.py 24-25, 31-42: the
\* request carries the tool's name and arguments and nothing of the caller)
ModelOf(path, r) == IF path = "generate_ifc" THEN r ELSE "blender"

IsoCallSet ==
  { Instruction("create_wall", "dict", None, NoFail),
    Instruction("create_room", "dict", None, NoFail),
    Instruction("create_stairs", "dict", None, StairsOutcome([steps |-> 0])),
    Instruction("create_spaceship", "dict", None, NoFail) }

RunStart ==
  [pc |-> "start", at |-> 1, created_elements |-> <<>>, results |-> <<>>,
   result |-> Running, output |-> <<>>]

InitIso ==
  /\ prog = None /\ project_name = None /\ tool_calls = <<>> /\ pc = "done"
  /\ spatial = <<>> /\ http = <<>> /\ geo = <<>>
  /\ InitLocals
  /\ \E path \in {"generate_ifc", "mcp_client"} :
     \E calls \in [Requests -> SeqsUpTo(IF path = "generate_ifc" THEN IsoCallSet
                                         ELSE McpCallSet, MaxIsoBatch)] :
       iso = [path |-> path, calls |-> calls,
              run |-> [ r \in Requests |-> RunStart ],
              models |-> [ m \in Requests \cup {"blender"} |-> <<>> ]]

\* the elements of a loop body as request r's
Owned(elements, r) ==
  [ k \in 1..Len(elements) |->
      [cls |-> elements[k].cls, by |-> r, call |-> elements[k].by,
       contained |-> elements[k].contained] ]

\* main.py 1093-1095 in request r: a new ifcopenshell.file and an empty
\* created_elements
Iso_CreateProject(r) ==
  /\ iso.path = "generate_ifc" /\ iso.run[r].pc = "start"
  /\ iso' = [iso EXCEPT !.run[r].pc = "loop",
                        !.models[ModelOf(iso.path, r)] = <<>>]
  /\ UNCHANGED <<geo, batchVars>>

\* main.py 1098-1123 in request r: one pass of the loop
Iso_ProcessToolCall(r) ==
  /\ iso.path = "generate_ifc" /\ iso.run[r].pc = "loop"
  /\ iso.run[r].at <= Len(iso.calls[r])
  /\ LET i == iso.run[r].at
         b == LoopBody(iso.calls[r][i], i)
         m == ModelOf(iso.path, r)
     IN  iso' = [iso EXCEPT
                   !.models[m] = @ \o Owned(b.elements, r),
                   !.run[r].created_elements = @ \o b.entry,
                   !.run[r].at = i + 1,
                   !.run[r].pc = IF b.abort # None THEN "done" ELSE "loop",
                   !.run[r].result = IF b.abort # None THEN HTTP500(b.abort) ELSE @]
  /\ UNCHANGED <<geo, batchVars>>

\* main.py 1125-1144 in request r, with a file system that works: the
\* response holds the model as it is when it is written
Iso_Respond(r) ==
  /\ iso.path = "generate_ifc" /\ iso.run[r].pc = "loop"
  /\ iso.run[r].at > Len(iso.calls[r])
  /\ LET a == ReadAndRespond("written", FALSE, "AI Generated BIM Model",
                             iso.run[r].created_elements)
     IN  iso' = [iso EXCEPT !.run[r].pc = "done",
                           !.run[r].result = a.result,
                           !.run[r].output = iso.models[ModelOf(iso.path, r)]]
  /\ UNCHANGED <<geo, batchVars>>

\* mcp_client.execute_tool_calls in request r: one pass of its loop; a
\* call answered 200 was executed in the running Blender instance
Iso_ExecuteToolCall(r) ==
  /\ iso.path = "mcp_client" /\ iso.run[r].pc \in {"start", "loop"}
  /\ iso.run[r].at <= Len(iso.calls[r])
  /\ \E outcome \in {"200", "timeout"} :
       LET i    == iso.run[r].at
           call == iso.calls[r][i]
           m    == ModelOf(iso.path, r)
           made == IF outcome = "200"
                     THEN Owned(RunHandler(call.name, i, NoFail).elements, r)
                     ELSE <<>>
       IN  iso' = [iso EXCEPT
                     !.models[m] = @ \o made,
                     !.run[r].results = Append(@, ResultEntry(call.name, outcome)),
                     !.run[r].at = i + 1,
                     !.run[r].pc = "loop"]
  /\ UNCHANGED <<geo, batchVars>>

\* mcp_client.export_ifc in request r: the export of the running instance
Iso_ExportIfc(r) ==
  /\ iso.path = "mcp_client" /\ iso.run[r].pc \in {"start", "loop"}
  /\ iso.run[r].at > Len(iso.calls[r])
  /\ \E outcome \in {"200", "timeout"} :
       iso' = [iso EXCEPT
                 !.run[r].pc = "done",
                 !.run[r].result = export_ifc(outcome),
                 !.run[r].output = IF outcome = "200"
                                     THEN iso.models[ModelOf(iso.path, r)]
                                     ELSE <<>>]
  /\ UNCHANGED <<geo, batchVars>>

NextIso ==
  \E r \in Requests :
    \/ Iso_CreateProject(r)
    \/ Iso_ProcessToolCall(r)
    \/ Iso_Respond(r)
    \/ Iso_ExecuteToolCall(r)
    \/ Iso_ExportIfc(r)

SpecIso == InitIso /\ [][NextIso]_vars

\* ================================================================ claims
BatchPrograms == {"generate_ifc", "blender_generator"}
Terminal == pc = "done"
N == Len(tool_calls)
Handlers == IF prog = "generate_ifc" THEN ELEMENT_HANDLERS ELSE BG_ELEMENT_HANDLERS
KnownKind(i) == tool_calls[i].name \in Handlers
InSeq(x, q) == \E k \in 1..Len(q) : q[k] = x
IsPrefix(p, q) == Len(p) <= Len(q) /\ \A k \in 1..Len(p) : p[k] = q[k]
Failed(r) == r.status \in {"500", "exit1", "exception"}
Succeeded(r) == r.status \in {"200", "exit0"}
\* the handler of instruction i was called and raised
HandlerRaised(i) == InSeq(i, invoked) /\ tool_calls[i].fail # NoFail
\* the handler of instruction i was called and returned
HandlerReturned(i) == InSeq(i, invoked) /\ tool_calls[i].fail = NoFail
ElementsBy(i) == { k \in 1..Len(ifc_file) : ifc_file[k].by = i }
\* the run report as the code keeps it: created_elements, whose entries are
\* written only after a handler returned
RunReport ==
  [ k \in 1..Len(created_elements) |->
      [kind |-> created_elements[k].type, outcome |-> "CREATED"] ]
Count(q, outcome) == Cardinality({ k \in 1..Len(q) : q[k].outcome = outcome })

\* C1: in both batch loops, once the handler of instruction i has raised,
\* every later instruction with a known kind has its handler invoked by the
\* time the run ends.
C1_HandlerFailureIsolation ==
  (prog \in BatchPrograms /\ Terminal) =>
    \A i \in 1..N : HandlerRaised(i) =>
      \A j \in (i + 1)..N : KnownKind(j) => InSeq(j, invoked)

\* C2: an instruction whose kind is no key of ELEMENT_HANDLERS is reported
\* and skipped without raising: it adds no element, its line is printed and
\* the run is not ended by it.
C2_UnknownKindSkipped ==
  prog \in BatchPrograms =>
    \A k \in 1..Len(processed) :
      LET i == processed[k]
      IN  tool_calls[i].name \notin Handlers =>
            /\ ElementsBy(i) = {}
            /\ InSeq(Line("unknown", tool_calls[i].name), stdout)
            /\ ~(Failed(result) /\ k = Len(processed) /\ exported = "none")

\* C3: no error of a single instruction (unparsable arguments, a function
\* name that is no string) makes the whole run fail.
C3_PerInstructionErrorsContained ==
  (prog \in BatchPrograms /\ Terminal /\ Failed(result)) =>
    result.detail \notin {"json.loads", "unhashable name"}

\* C4: when generate_ifc has answered, the run report holds one entry for
\* every instruction of the batch, each CREATED, FAILED or
\* SKIPPED_UNKNOWN_KIND.
C4_ReportComplete ==
  (prog = "generate_ifc" /\ Terminal /\ Succeeded(result)) =>
    /\ Len(RunReport) = N
    /\ \A k \in 1..Len(RunReport) :
         RunReport[k].outcome \in {"CREATED", "FAILED", "SKIPPED_UNKNOWN_KIND"}

\* C5: a batch of n instructions for primitives, k of them of unknown kind
\* and the others succeeding, ends with n-k CREATED and k FAILED entries in
\* the run report and n-k elements in the model.
UnknownKinds == { i \in 1..N : ~KnownKind(i) }
PrimitiveBatch ==
  \A i \in 1..N :
    /\ tool_calls[i].name # "create_room"
    /\ tool_calls[i].fail = NoFail
    /\ tool_calls[i].arguments # "badjson"
    /\ Hashable(tool_calls[i].name)
C5_BatchIsolationCounts ==
  (prog = "generate_ifc" /\ Terminal /\ Succeeded(result) /\ PrimitiveBatch) =>
    /\ Count(RunReport, "CREATED") = N - Cardinality(UnknownKinds)
    /\ Count(RunReport, "FAILED") = Cardinality(UnknownKinds)
    /\ Len(ifc_file) = N - Cardinality(UnknownKinds)

\* C6: the instructions processed so far are a prefix of the batch, in
\* submission order; created_elements is the in-order sequence of the entries
\* of those whose handler returned; both only ever grow at the end.
EntryOf(i) ==
  [name |-> IF tool_calls[i].argname = None THEN tool_calls[i].name
            ELSE tool_calls[i].argname,
   type |-> tool_calls[i].name]
RECURSIVE EntriesOf(_)
EntriesOf(q) ==
  IF q = <<>> THEN <<>>
  ELSE LET i == Head(q)
       IN  (IF HandlerReturned(i) THEN <<EntryOf(i)>> ELSE <<>>) \o EntriesOf(Tail(q))
InSubmissionOrder ==
  /\ processed = Range(Len(processed))
  /\ \A a, b \in 1..Len(invoked) : a < b => invoked[a] < invoked[b]
  /\ prog = "generate_ifc" => created_elements = EntriesOf(processed)
AppendOnly ==
  /\ IsPrefix(processed, processed')
  /\ IsPrefix(invoked, invoked')
  /\ IsPrefix(created_elements, created_elements')
  /\ IsPrefix(results, results')
C6_SubmissionOrder == []InSubmissionOrder /\ [][AppendOnly]_vars

\* a run that processed three instructions, recording the first and the
\* third and not the second
C6_Witness ==
  /\ prog = "generate_ifc"
  /\ processed = <<1, 2, 3>>
  /\ Len(created_elements) = 2
  /\ ~HandlerReturned(2)

\* C7: when the encoder raises or leaves no output file, the run ends as a
\* failed run (HTTP 500 in generate_ifc, an exception or exit status 1 in the
\* two scripts), whatever was created before.
C7_ExportFailureIsHard ==
  (Terminal /\ exported \in {"raise", "missing"}) =>
    /\ Failed(result)
    /\ prog = "generate_ifc" => result.status = "500"
    /\ prog \in {"blender_generator", "execute_code"} =>
         result.status = (IF exported = "raise" THEN "exception" ELSE "exit1")

\* the encoder left no file after a batch that created elements
C7_Witness ==
  /\ Terminal /\ prog = "blender_generator"
  /\ exported = "missing"
  /\ \E i \in 1..N : HandlerReturned(i)
  /\ Len(ifc_file) > 0

\* C8: when generate_ifc ends in a hard failure at the export stage after
\* instructions were created, the caller still receives the run report built
\* so far.
C8_ReportSurvivesHardFailure ==
  (prog = "generate_ifc" /\ Terminal /\ exported \in {"raise", "missing"}
     /\ created_elements # <<>>) =>
    result.created = Len(created_elements)

\* C9: a run that produced no element, exported and did not fail ends in a
\* state of its own, told apart from the one a completed run ends in.
C9_ZeroElementsReported ==
  (prog \in BatchPrograms /\ Terminal /\ Len(ifc_file) = 0
     /\ exported = "written" /\ ~Failed(result)) =>
    ~Succeeded(result)

\* C10: a call that ran into the timeout is never reported as a success, and
\* its entry differs from the entry of every other kind of failure.
C10_TimeoutDistinct ==
  prog = "mcp_client" =>
    \A k \in 1..Len(results) :
      http[processed[k]] = "timeout" =>
        /\ ~results[k].success
        /\ \A m \in 1..Len(results) :
             http[processed[m]] \notin {"timeout", "200"} =>
               results[k].result.error # results[m].result.error

\* C11: after any batch, failing instructions included, every element
\* entity present in the model is contained in the storey (none is left
\* without a storey above it) and the one spatial skeleton under the
\* project is the only root of the tree.
C11_EveryElementInOneStorey ==
  (prog = "generate_ifc" /\ pc # "start") =>
    /\ spatial = Skeleton
    /\ \A k \in 1..Len(ifc_file) : ifc_file[k].contained

\* the spatial products of the run: those of the skeleton and any that an
\* instruction put into the model
CountOf(cls) ==
  Cardinality({ k \in 1..Len(spatial) : spatial[k] = cls })
    + Cardinality({ k \in 1..Len(ifc_file) : ifc_file[k].cls = cls })

SkeletonBuiltOnce ==
  prog = "generate_ifc" =>
    /\ pc = "start" => (spatial = <<>> /\ processed = <<>> /\ ifc_file = <<>>)
    /\ pc # "start" => \A k \in 1..Len(Skeleton) : CountOf(Skeleton[k]) = 1

SkeletonNeverRebuilt ==
  prog = "generate_ifc" =>
    /\ spatial' # spatial => (spatial = <<>> /\ processed = <<>>)
    /\ IsPrefix(ifc_file, ifc_file')

\* C12: the site, building and storey are created exactly once per run,
\* before the first instruction is processed; no instruction, a multi-floor
\* create_building included, adds a second storey, and an element that is
\* in the model with its container is never changed again.
C12_SkeletonOnce == []SkeletonBuiltOnce /\ [][SkeletonNeverRebuilt]_vars

\* a finished run that processed a create_building of two floors
C12_Witness ==
  /\ prog = "generate_ifc" /\ Terminal /\ ~Failed(result)
  /\ \E i \in 1..N : /\ tool_calls[i].name = "create_building"
                       /\ Cardinality(ElementsBy(i)) = 11
                       /\ \A k \in ElementsBy(i) : ifc_file[k].contained
  /\ CountOf("IfcBuildingStorey") = 1

\* ------------------------------------------------ claims on the handlers
GeoBuilt(kind) == geo.kind = kind /\ geo.pc = "built"
\* the instruction gives exactly these sizes
Gives(size) == \A key \in DOMAIN size : key \in DOMAIN geo.params /\ geo.params[key] = size[key]

\* C14: a wall instruction whose sizes are {length 5000, height 3000,
\* thickness 200} is built with {5.0, 3.0, 0.2}, all three rescaled by the
\* one factor, and one whose sizes are {5.0, 3.0, 0.2} is built with them
\* unchanged.
C14_UnitNormalization ==
  GeoBuilt("create_wall") =>
    /\ Gives([length |-> 5000000, height |-> 3000000, thickness |-> 200000]) =>
         geo.out[1].size = [length |-> 5000, height |-> 3000, thickness |-> 200]
    /\ Gives([length |-> 5000, height |-> 3000, thickness |-> 200]) =>
         geo.out[1].size = [length |-> 5000, height |-> 3000, thickness |-> 200]

\* C15: in both create_column implementations a column of height h > 0
\* asked at (x, y, z) has the base of its solid at z and its centroid at
\* z + h/2: the requested z is the base, never the centroid.
C15_ColumnBaseAtZ ==
  (GeoBuilt("create_column") /\ geo.out[1].size.height > 0) =>
    LET solid == geo.out[1].solids[1]
        z     == Get(geo.params, "z", 0)
        h     == geo.out[1].size.height
    IN  /\ solid.base = z
        /\ solid.base + solid.top = 2 * z + h

\* C17: in both create_stairs implementations steps = n >= 1 asked at z
\* gives n step solids; step i (from 0) has its base at z + i * stepHeight
\* and lies i * stepDepth further in depth, so the last step tops out at
\* z + n * stepHeight with its base (n - 1) * stepHeight above z.
C17_StairSteps ==
  (geo.kind = "create_stairs" /\ geo.pc \in {"built", "raised"}
     /\ Get(geo.params, "steps", 1) >= 1) =>
    /\ geo.pc = "built"
    /\ LET stair  == geo.out[1]
           n      == stair.size.steps
           z      == Get(geo.params, "z", 0)
           solids == stair.solids
       IN  /\ Len(solids) = n
           /\ \A k \in 1..Len(solids) :
                /\ solids[k].base = z + (k - 1) * stair.size.stepHeight
                /\ solids[k].ylo - solids[1].ylo = (k - 1) * stair.size.stepDepth
           /\ solids[Len(solids)].top = z + n * stair.size.stepHeight

\* what a handler builds when the instruction gives no size at all
DefaultSize(impl, kind) ==
  CASE kind = "create_wall" /\ impl = "main" -> main_create_wall(NoParams).size
    [] kind = "create_wall" /\ impl = "bg"   -> bg_create_wall(NoParams).size
    [] kind = "create_box"                    -> main_create_box(NoParams).size

\* C20: for every size parameter a handler reads, a missing value and a
\* value of zero are both replaced by the handler's default for it (wall:
\* length 5.0, height 3.0, thickness 0.2), so nothing is built with a zero
\* size taken from the instruction.
C20_DefaultFallback ==
  (geo.kind \in {"create_wall", "create_box"} /\ geo.pc = "built") =>
    \A key \in DOMAIN geo.out[1].size :
      /\ geo.out[1].size[key] # 0
      /\ (key \notin DOMAIN geo.params \/ geo.params[key] = 0) =>
           geo.out[1].size[key] = DefaultSize(geo.impl, geo.kind)[key]

C19_ZeroByteExportFails ==
  (prog \in BatchPrograms /\ Terminal /\ exported = "empty") => Failed(result)

\* --------------------------------------------- claims on pairs of requests
BothDone == \A r \in Requests : iso.run[r].pc = "done"
\* a model or report without the mark of the request that made it
Unmarked(elements) ==
  [ k \in 1..Len(elements) |->
      [cls |-> elements[k].cls, call |-> elements[k].call,
       contained |-> elements[k].contained] ]

\* C13: however two requests A and B interleave, every element made by
\* A's instructions is in A's model and output only, never in B's: the two
\* runs share no model instance.
C13_RequestIsolation ==
  /\ \A m \in DOMAIN iso.models : \A j, k \in 1..Len(iso.models[m]) :
       iso.models[m][j].by = iso.models[m][k].by
  /\ \A r \in Requests : \A k \in 1..Len(iso.run[r].output) :
       iso.run[r].output[k].by = r

ChildrenAsBuilt ==
  (geo.impl = "main" /\ geo.pc = "built"
     /\ geo.kind \in {"create_wall", "create_room", "create_stairs", "create_building"}
     /\ Get(geo.params, "floors", 2) = 2) =>
    Classes(geo.out) = Children(geo.kind)

RequestedAt(kind, params) ==
  [x |-> Get(params, "x", 0),
   y |-> Get(params, "y", IF kind = "create_countertop" THEN 900 ELSE 0),
   z |-> Get(params, "z", 0)]

\* how the requested coordinate sits in the extent lo..hi of the solid
Anchor(requested, lo, hi) ==
  IF lo = hi THEN "flat"
  ELSE IF lo = requested THEN "min"
  ELSE IF hi = requested THEN "max"
  ELSE IF lo + hi = 2 * requested THEN "centre"
  ELSE "offset"

AnchorsOf(kind, params, product) ==
  LET at    == RequestedAt(kind, params)
      solid == product.solids[1]
  IN  [x |-> Anchor(at.x, solid.xlo, solid.xhi),
       y |-> Anchor(at.y, solid.ylo, solid.yhi),
       z |-> Anchor(at.z, solid.base, solid.top)]

SameRule(a, b) == a = "flat" \/ b = "flat" \/ a = b

\* the handlers of one file that assign the same IFC class, with what each
\* builds from the parameters
Peers(impl, kind, params) ==
  IF impl = "main" /\ kind \in {"create_box", "create_plane", "create_cylinder"}
    THEN { [kind |-> "create_box", product |-> main_create_box(params)],
           [kind |-> "create_plane", product |-> main_create_plane(params)],
           [kind |-> "create_cylinder", product |-> main_create_cylinder(params)] }
  ELSE IF impl = "bg" /\ kind \in {"create_slab", "create_plane", "create_countertop"}
    THEN { [kind |-> "create_slab", product |-> bg_create_slab(params)],
           [kind |-> "create_plane", product |-> bg_create_plane(params)],
           [kind |-> "create_countertop", product |-> bg_create_countertop(params)] }
  ELSE {}

\* C21: within one implementation file, two handlers that assign the same
\* IFC class relate the requested (x, y, z) to the solid's bounding box by
\* the same rule on every axis (create_slab, create_plane, create_countertop
\* in blender_generator.py; create_box, create_plane, create_cylinder in
\* main.py).
C21_AnchorConsistency ==
  geo.pc = "built" =>
    \A peer \in Peers(geo.impl, geo.kind, geo.params) :
      peer.product.cls = geo.out[1].cls =>
        LET mine   == AnchorsOf(geo.kind, geo.params, geo.out[1])
            theirs == AnchorsOf(peer.kind, geo.params, peer.product)
        IN  /\ SameRule(mine.x, theirs.x)
            /\ SameRule(mine.y, theirs.y)
            /\ SameRule(mine.z, theirs.z)

\* the solid covers the stretch from c0 to c0 + len of the X axis (of the Y
\* axis) and touches the line y = c1 (x = c1)
RunsAlongX(solid, c0, len, c1) ==
  /\ solid.xlo <= c0 /\ c0 + len <= solid.xhi
  /\ solid.ylo <= c1 /\ c1 <= solid.yhi
RunsAlongY(solid, c0, len, c1) ==
  /\ solid.ylo <= c0 /\ c0 + len <= solid.yhi
  /\ solid.xlo <= c1 /\ c1 <= solid.xhi

\* C22: the four walls of create_room lie on the four sides of the room's
\* width x depth rectangle anchored at (x, y): front and back have length
\* width and run along the width axis at y and y + depth, left and right
\* have length depth and run along the depth axis at x and x + width.
C22_RoomPerimeter ==
  GeoBuilt("create_room") =>
    LET x     == Get(geo.params, "x", 0)
        y     == Get(geo.params, "y", 0)
        width == Get(geo.params, "width", 5000)
        depth == Get(geo.params, "depth", 5000)
        front == geo.out[2]
        back  == geo.out[3]
        left  == geo.out[4]
        right == geo.out[5]
    IN  /\ front.size.length = width /\ back.size.length = width
        /\ left.size.length = depth /\ right.size.length = depth
        /\ RunsAlongX(front.solids[1], x, width, y)
        /\ RunsAlongX(back.solids[1], x, width, y + depth)
        /\ RunsAlongY(left.solids[1], y, depth, x)
        /\ RunsAlongY(right.solids[1], y, depth, x + width)

\* index in create_building's output of the first column of floor f
FirstColumn(f) == IF f = 0 THEN 2 ELSE 5 * f + 1

NonDecreasing(heights) ==
  \A k \in 1..(Len(heights) - 1) : heights[k] <= heights[k + 1]

\* C23: create_building with F >= 1 floors of height H emits 5F + 1
\* primitives in this order: the foundation slab at z = 0, for each floor f
\* four columns of height H at z = f*H and (for f > 0) one floor slab at
\* z = f*H, then the roof at z = F*H; the base heights of the columns and
\* slabs never decrease along the sequence.
C23_BuildingExpansion ==
  (GeoBuilt("create_building") /\ Get(geo.params, "floors", 2) >= 1) =>
    LET F   == Get(geo.params, "floors", 2)
        H   == Get(geo.params, "floorHeight", 3000)
        out == geo.out
    IN  /\ Len(out) = 5 * F + 1
        /\ out[1].cls = "IfcSlab" /\ out[1].solids[1].base = 0
        /\ \A f \in 0..(F - 1) :
             /\ \A k \in FirstColumn(f)..(FirstColumn(f) + 3) :
                  /\ out[k].cls = "IfcColumn"
                  /\ out[k].size.height = H
                  /\ out[k].solids[1].base = f * H
             /\ f > 0 => /\ out[FirstColumn(f) + 4].cls = "IfcSlab"
                         /\ out[FirstColumn(f) + 4].solids[1].base = f * H
        /\ out[5 * F + 1].cls = "IfcRoof" /\ out[5 * F + 1].at.z = F * H
        /\ NonDecreasing([ k \in 1..(5 * F) |-> out[k].solids[1].base ])

\* the instruction moved by d
Shifted(params, d) ==
  [x |-> Get(params, "x", 0) + d.x, y |-> Get(params, "y", 0) + d.y,
   z |-> Get(params, "z", 0) + d.z] @@ params

Composite(kind, params) ==
  IF kind = "create_room" THEN main_create_room(params)
  ELSE main_create_building(params)

Shift == [x |-> 500, y |-> 700, z |-> 900]

\* C30: every primitive a composite emits is positioned relative to the
\* composite's own x, y, z: moving the instruction by an offset moves every
\* child by that offset, for create_building as for create_room.
C30_CompositeRelativePlacement ==
  (GeoBuilt("create_room") \/ GeoBuilt("create_building")) =>
    LET moved == Composite(geo.kind, Shifted(geo.params, Shift))
    IN  /\ Len(moved) = Len(geo.out)
        /\ \A k \in 1..Len(geo.out) :
             /\ moved[k].at = [x |-> geo.out[k].at.x + Shift.x,
                               y |-> geo.out[k].at.y + Shift.y,
                               z |-> geo.out[k].at.z + Shift.z]
             /\ moved[k].solids = [ j \in 1..Len(geo.out[k].solids) |->
                                      Placed(geo.out[k].solids[j], Shift) ]

TimesProcessed(i) == Cardinality({ k \in 1..Len(processed) : processed[k] = i })

\* C24: every finite batch run leaves RUNNING and ends in a terminal state
\* after processing each instruction exactly once, and never goes back from
\* a terminal state to RUNNING: a run that has ended has taken every
\* instruction of its batch through the loop exactly once.
C24_Termination ==
  (prog \in BatchPrograms /\ Terminal /\ result.detail # "no arguments") =>
    \A i \in 1..N : TimesProcessed(i) = 1

\* the parts of C24 about termination alone
C24_TerminalIsFinal == [][Terminal => Terminal']_vars
C24_AtMostOnce == prog \in BatchPrograms => \A i \in 1..N : TimesProcessed(i) <= 1
\* every step of a run strictly decreases StepsLeft: no run goes on forever
Rank(p) ==
  CASE p = "start" -> 4
    [] p = "loop" -> 3
    [] p \in {"read", "export"} -> 2
    [] p = "check" -> 1
    [] OTHER -> 0
StepsLeft == Rank(pc) * (N + 1) + Len(it)
C24_EveryStepProgresses == [][StepsLeft' < StepsLeft]_vars

\* C26: every temporary file generate_ifc creates is removed before the
\* request finishes, on success and on every failure path.
C26_TempFileRemoved ==
  (prog = "generate_ifc" /\ Terminal) => tmp_file \in {"none", "missing"}

\* C27: a handler that raises leaves the model unchanged: no primitive of
\* its own and no child of a failing composite is in the model.
C27_FailedHandlerAtomic ==
  prog \in BatchPrograms =>
    \A i \in 1..N : HandlerRaised(i) => ElementsBy(i) = {}

\* C28: in execute_tool_calls an entry's top-level success flag is true
\* only if the tool was executed successfully (HTTP 200).
C28_SuccessOnlyOn200 ==
  prog = "mcp_client" =>
    \A k \in 1..Len(results) :
      results[k].success => http[processed[k]] = "200"

\* C25: processing an instruction never modifies its parameters mapping or
\* its kind: no step of a run changes the submitted batch, also when a
\* handler fails and when a composite derives the parameters of its children.
C25_InstructionImmutable ==
  [][tool_calls' = tool_calls]_vars
\* a run that has ended after it parsed an instruction's arguments from a
\* string, had a handler fail and expanded a composite
C25_Witness ==
  /\ prog = "generate_ifc" /\ Terminal /\ Succeeded(result)
  /\ \E i, j, k \in 1..Len(processed) :
       /\ tool_calls[i].arguments = "json" /\ HandlerReturned(i)
       /\ HandlerRaised(j)
       /\ tool_calls[k].name = "create_room" /\ HandlerReturned(k)

====
